---------------------------- MODULE Spec2Model ----------------------------
(***************************************************************************)
(* Episode driver and LLM-backed action policy of jericho-humemai.         *)
(*                                                                         *)
(* One episode of run_games (src/run-agent.py): an agent of one of the     *)
(* three classes is constructed on a fresh environment, run() is executed  *)
(* statement by statement, and the harness builds the result record.       *)
(* Strings that the code inspects (legal actions, model responses) are     *)
(* sequences of one-character strings; opaque values (observations, info)  *)
(* are the ordinal of the environment call that produced them.             *)
(***************************************************************************)
EXTENDS Integers, Sequences, FiniteSets, TLC

VARIABLES
    kind,                   \* class of the agent: RandomAgent, LLMAgent, WalkThroughAgent
    max_steps,              \* self.max_steps: <<>> is None, <<m>> is the integer m
    fallback_to_random,     \* self.fallback_to_random
    max_chat_history_size,  \* self.max_chat_history_size
    walkthrough,            \* what env.get_walkthrough() returns
    step,                   \* self.step
    observations,           \* self.observations (dict: step index -> observation)
    actions,                \* self.actions      (dict: step index -> action)
    rewards,                \* self.rewards      (dict: step index -> reward)
    self_info,              \* self.info
    chat_history,           \* self.chat_history
    pc,                     \* position in run() / run_games
    done,                   \* run(): local done
    valid_actions,          \* run(): local valid_actions
    action,                 \* run(): local action
    observation,            \* run(): local observation
    reward,                 \* run(): local reward
    info,                   \* run(): local info
    walk_idx,               \* WalkThroughAgent.run: position of the for loop
    outcome,                \* choose_action: what the completion request produced
    exc,                    \* the exception propagating out of run(), or "none"
    exit_by,                \* how the loop of run() was left
    env_steps,              \* number of env.step calls that have returned
    env_log,                \* what each of them was passed and returned, in order
    env_closed,             \* env.close() has been called
    env_after_close,        \* environment operations invoked after env.close()
    result                  \* run_games: the result record of the episode

vars == <<kind, max_steps, fallback_to_random, max_chat_history_size, walkthrough,
          step, observations, actions, rewards, self_info, chat_history,
          pc, done, valid_actions, action, observation, reward, info, walk_idx,
          outcome, exc, exit_by, env_steps, env_log, env_closed, env_after_close, result>>

config == <<kind, max_steps, fallback_to_random, max_chat_history_size, walkthrough>>

-----------------------------------------------------------------------------
(* Bounds of the exploration *)

\* env.step is explored up to this many calls per episode
MaxEnvSteps == 3
\* integer step maxima 0..MaxStepLimit are explored, besides None
MaxStepLimit == 2
\* window sizes 0..MaxWindow are explored
MaxWindow == 1
\* walkthroughs of length 0..MaxWalk are explored
MaxWalk == 2
\* model responses of the matching specification have up to this many characters
MaxRespLen == 3

-----------------------------------------------------------------------------
(* Strings *)

ActGoNorth == <<"g","o"," ","n","o","r","t","h">>
ActNorth == <<"n","o","r","t","h">>
ActOpenDoor == <<"o","p","e","n"," ","d","o","o","r">>
ActWait == <<"w","a","i","t">>

\* "I will go north now"
RespGoNorth == <<"I"," ","w","i","l","l"," ","g","o"," ","n","o","r","t","h"," ","n","o","w">>
\* "I think I should wait here"
RespWait == <<"I"," ","t","h","i","n","k"," ","I"," ","s","h","o","u","l","d"," ",
              "w","a","i","t"," ","h","e","r","e">>
\* " NORTH. " (surrounding whitespace, upper case, punctuation)
RespUpperNorth == <<" ","N","O","R","T","H","."," ">>
\* "northern" (a legal action only as part of a longer word)
RespNorthern == <<"n","o","r","t","h","e","r","n">>

\* re.IGNORECASE: characters are compared regardless of case.
Lower(c) ==
    CASE c = "I" -> "i" [] c = "N" -> "n" [] c = "O" -> "o" [] c = "R" -> "r"
      [] c = "T" -> "t" [] c = "H" -> "h" [] c = "G" -> "g" [] c = "W" -> "w"
      [] c = "A" -> "a" [] OTHER -> c

\* \w of Python's re: letters, digits and the underscore.
IsWordChar(c) == c \notin {" ", ".", ",", "!", "'"}

IsSpace(c) == c = " "

\* str.strip(): leading and trailing whitespace removed.
RECURSIVE LStrip(_)
LStrip(s) == IF s # <<>> /\ IsSpace(Head(s)) THEN LStrip(Tail(s)) ELSE s

RECURSIVE RStrip(_)
RStrip(s) ==
    IF s # <<>> /\ IsSpace(s[Len(s)]) THEN RStrip(SubSeq(s, 1, Len(s) - 1)) ELSE s

Strip(s) == RStrip(LStrip(s))

\* \b at the gap before position p (1..Len(s)+1) of s: exactly one side is a word
\* character; outside the string counts as a non-word character.
WordBoundary(s, p) ==
    LET before == p > 1 /\ IsWordChar(s[p - 1])
        after == p <= Len(s) /\ IsWordChar(s[p])
    IN before # after

\* The escaped action text matches s at position p, ignoring case.
LiteralAt(a, s, p) ==
    /\ p + Len(a) - 1 <= Len(s)
    /\ \A i \in 1..Len(a) : Lower(s[p + i - 1]) = Lower(a[i])


\* re.search(rf"\b{re.escape(action)}\b", raw_response, re.IGNORECASE)
ReSearch(a, s) ==
    \E p \in 1..(Len(s) + 1) :
        /\ WordBoundary(s, p)
        /\ LiteralAt(a, s, p)
        /\ WordBoundary(s, p + Len(a))

\* The for loop, were it to keep the last action found instead of returning the first.
LastMatch(valid, raw) ==
    LET hits == {j \in 1..Len(valid) : ReSearch(valid[j], raw)}
    IN IF hits = {} THEN 0 ELSE CHOOSE j \in hits : \A k \in hits : j >= k

\* The for loop over valid_actions: the index of the action it returns, 0 when
\* it runs to its end.
FirstMatch(valid, raw) ==
    LET hits == {j \in 1..Len(valid) : ReSearch(valid[j], raw)}
    IN IF hits = {} THEN 0 ELSE CHOOSE j \in hits : \A k \in hits : j <= k

-----------------------------------------------------------------------------
(* Python values *)

None == <<>>
PyInt(m) == <<m>>

\* Truth value of self.max_steps: None and 0 are false.
Truthy(m) == m # None /\ m[1] # 0

\* d[k] = v on a dict
DictSet(d, k, v) == [x \in (DOMAIN d) \cup {k} |-> IF x = k THEN v ELSE d[x]]

\* len(d)
DictLen(d) == Cardinality(DOMAIN d)

\* sum(d.values())
RECURSIVE SumValues(_)
SumValues(d) ==
    IF DOMAIN d = {} THEN 0
    ELSE LET k == CHOOSE x \in DOMAIN d : TRUE
         IN d[k] + SumValues([x \in (DOMAIN d) \ {k} |-> d[x]])

\* s[-k:], were it to keep one element fewer.
NegSliceOffByOne(s, k) ==
    IF k = 0 \/ k >= Len(s) THEN s ELSE SubSeq(s, Len(s) - k + 2, Len(s))

\* s[-k:] on a list: -0 is 0, so s[-0:] is the whole list.
NegSlice(s, k) ==
    IF k = 0 \/ k >= Len(s) THEN s ELSE SubSeq(s, Len(s) - k + 1, Len(s))

-----------------------------------------------------------------------------
(* Environment *)

\* The values jericho hands back are opaque to the agent: each is the ordinal of
\* the environment call that produced it (0: reset).
EnvObservation(n) == n
EnvInfo(n) == <<"env", n>>
Unbound == <<"unbound", 0>>
NoAttribute == <<"absent", 0>>
EmptyInfo == <<"empty", 0>>

Rewards == {0, 1}

\* What get_valid_actions() may return.
ValidActionLists == {<<>>, <<ActGoNorth, ActNorth>>}

WalkActions == {ActNorth, ActWait}

RECURSIVE SeqsUpTo(_, _)
SeqsUpTo(S, n) ==
    IF n = 0 THEN {<<>>}
    ELSE LET shorter == SeqsUpTo(S, n - 1)
         IN shorter \cup {Append(s, x) : s \in {t \in shorter : Len(t) = n - 1}, x \in S}

Walkthroughs == SeqsUpTo(WalkActions, MaxWalk)

-----------------------------------------------------------------------------
(* Conversational context *)

Turn(role, tag, n, v) == [role |-> role, content |-> <<tag, n, v>>]

system_message == Turn("system", "System", 0, 0)

\* The trim, were it to keep the oldest turns (a [:n] slice) instead of the newest.
TrimHistoryFromHead(h, w) ==
    IF Len(h) > w * 3
    THEN <<system_message>> \o SubSeq(Tail(h), 1, w * 3)
    ELSE h

\* The trim at the head of choose_action.
TrimHistory(h, w) ==
    IF Len(h) > w * 3
    THEN <<system_message>> \o NegSlice(Tail(h), w * 3)
    ELSE h

\* chat_history.append(...) of the LLMAgent's update methods; the base class's
\* update methods touch no chat history.
Appended(h, k, t) == IF k = "LLMAgent" THEN Append(h, t) ELSE h

-----------------------------------------------------------------------------
(* The completion request *)

\* What the try block can raise before the for loop, by the statement raising it.
RequestFailures ==
    {"ConnectionError",   \* requests.post: transport error
     "Timeout",           \* requests.post: timeout=self.timeout expired
     "HTTPError",         \* response.raise_for_status(): non-2xx status
     "JSONDecodeError",   \* response.json(): the body is no JSON
     "KeyError",          \* ["choices"], ["message"] or ["content"] is absent
     "IndexError",        \* ["choices"][0] on an empty list
     "AttributeError"}    \* None.strip(): "content" is null

\* The classes of an exception, up to the ones the except clause names.
ExcClasses(e) ==
    CASE e \in {"ConnectionError", "Timeout", "HTTPError"} -> {e, "RequestException"}
      [] e = "JSONDecodeError" -> {e, "RequestException", "ValueError"}
      [] OTHER -> {e}

\* except (requests.exceptions.RequestException, KeyError, ValueError)
Caught(e) == ExcClasses(e) \cap {"RequestException", "KeyError", "ValueError"} # {}

Failed(e) == [exc |-> e, content |-> <<>>]
Responded(text) == [exc |-> "none", content |-> text]
NoOutcome == [exc |-> "unset", content |-> <<>>]

Return(a) == [raised |-> "none", ret |-> a]
Raise(e) == [raised |-> e, ret |-> <<>>]

\* random.choice(valid_actions)
RandomChoice(valid) == {valid[i] : i \in DOMAIN valid}

\* "return action" of the for loop, were it to hand back the model's text.
MatchedActionRaw(valid, raw, m) == raw

\* "return action" of the for loop.
MatchedAction(valid, raw, m) == valid[m]

\* The branch after the for loop, were it to trust the model's text.
NoMatchRaw(valid, raw, fb) == {Return(raw)}

\* The branch after the for loop: no legal action occurs in the response.
NoMatch(valid, raw, fb) ==
    IF fb THEN {Return(a) : a \in RandomChoice(valid)} ELSE {Raise("ValueError")}

\* The except clause, were it to fall back whatever the flag says.
ExceptClauseAlwaysFallback(valid, fb, e) ==
    IF Caught(e) THEN {Return(a) : a \in RandomChoice(valid)} ELSE {Raise(e)}

\* The except clause: a caught exception falls back or is raised again; any other
\* exception passes through.
ExceptClause(valid, fb, e) ==
    IF Caught(e)
    THEN IF fb THEN {Return(a) : a \in RandomChoice(valid)} ELSE {Raise(e)}
    ELSE {Raise(e)}

\* The try block.
TryBlock(valid, o, fb) ==
    IF o.exc # "none" THEN {Raise(o.exc)}
    ELSE LET raw_response == Strip(o.content)
             m == FirstMatch(valid, raw_response)
         IN IF m > 0 THEN {Return(MatchedAction(valid, raw_response, m))}
            ELSE NoMatch(valid, raw_response, fb)

\* LLMAgent.choose_action after the trim: what it returns or raises.
ChooseResults(valid, o, fb) ==
    UNION {IF r.raised = "none" THEN {r} ELSE ExceptClause(valid, fb, r.raised) :
           r \in TryBlock(valid, o, fb)}

\* Responses of the episode specification.
Responses == {RespGoNorth, RespUpperNorth, RespNorthern}

Outcomes == {Failed(e) : e \in RequestFailures} \cup {Responded(t) : t \in Responses}

-----------------------------------------------------------------------------
(* Construction: Agent.__init__, reset_env, LLMAgent.__init__ *)

AgentKinds == {"RandomAgent", "LLMAgent", "WalkThroughAgent"}

StepMaxima == {None} \cup {PyInt(m) : m \in 0..MaxStepLimit}

NoResult == [agent |-> "none"]

Init ==
    /\ kind \in AgentKinds
    /\ max_steps \in StepMaxima
    /\ fallback_to_random \in (IF kind = "LLMAgent" THEN BOOLEAN ELSE {TRUE})
    /\ max_chat_history_size \in (IF kind = "LLMAgent" THEN 0..MaxWindow ELSE {0})
    /\ walkthrough \in (IF kind = "WalkThroughAgent" THEN Walkthroughs ELSE {<<>>})
    /\ step = 0
    /\ observations = DictSet(<<>>, 0, EnvObservation(0))
    /\ actions = <<>>
    /\ rewards = <<>>
    /\ self_info = IF kind = "LLMAgent" THEN EmptyInfo ELSE NoAttribute
    /\ chat_history = IF kind = "LLMAgent"
                      THEN <<system_message, Turn("user", "Observation", 0, EnvObservation(0))>>
                      ELSE <<>>
    /\ pc = IF kind = "WalkThroughAgent" THEN "get_walkthrough" ELSE "while"
    /\ done = FALSE
    /\ valid_actions = <<>>
    /\ action = <<>>
    /\ observation = EnvObservation(0)
    /\ reward = 0
    /\ info = Unbound
    /\ walk_idx = 0
    /\ outcome = NoOutcome
    /\ exc = "none"
    /\ exit_by = "none"
    /\ env_steps = 0
    /\ env_log = <<>>
    /\ env_closed = FALSE
    /\ env_after_close = <<>>
    /\ result = NoResult

-----------------------------------------------------------------------------
(* Agent.run *)

\* The loop condition, were it to leave done out.
LoopConditionIgnoresDone == ~Truthy(max_steps) \/ step < max_steps[1]

\* while not done and (not self.max_steps or self.step < self.max_steps)
LoopCondition == ~done /\ (~Truthy(max_steps) \/ step < max_steps[1])

WhileTest ==
    /\ pc = "while"
    /\ pc' = IF LoopCondition THEN "get_valid_actions" ELSE "set_info"
    /\ exit_by' = IF LoopCondition THEN exit_by ELSE IF done THEN "done" ELSE "max_steps"
    /\ UNCHANGED <<config, step, observations, actions, rewards, self_info, chat_history,
                   done, valid_actions, action, observation, reward, info, walk_idx,
                   outcome, exc, env_steps, env_log, env_closed, env_after_close, result>>

\* valid_actions = self.env.get_valid_actions(); the break on an empty list
GetValidActions ==
    /\ pc = "get_valid_actions"
    /\ \E va \in ValidActionLists :
        /\ valid_actions' = va
        /\ pc' = IF Len(va) = 0 THEN "set_info" ELSE "choose_action"
        /\ exit_by' = IF Len(va) = 0 THEN "empty" ELSE exit_by
    /\ UNCHANGED <<config, step, observations, actions, rewards, self_info, chat_history,
                   done, action, observation, reward, info, walk_idx,
                   outcome, exc, env_steps, env_log, env_closed, env_after_close, result>>

\* RandomAgent.choose_action
RandomChooseAction ==
    /\ pc = "choose_action"
    /\ kind = "RandomAgent"
    /\ \E a \in RandomChoice(valid_actions) : action' = a
    /\ pc' = "update_action"
    /\ UNCHANGED <<config, step, observations, actions, rewards, self_info, chat_history,
                   done, valid_actions, observation, reward, info, walk_idx,
                   outcome, exc, exit_by, env_steps, env_log, env_closed, env_after_close, result>>

\* LLMAgent.choose_action on a request that ends as one of outs. An exception it
\* raises leaves run() and run_games, neither of which has a handler.
LLMChoose(outs) ==
    /\ pc = "choose_action"
    /\ kind = "LLMAgent"
    /\ chat_history' = TrimHistory(chat_history, max_chat_history_size)
    /\ \E o \in outs :
        \E r \in ChooseResults(valid_actions, o, fallback_to_random) :
            /\ outcome' = o
            /\ action' = r.ret
            /\ exc' = r.raised
            /\ pc' = IF r.raised = "none" THEN "update_action" ELSE "raised"
            /\ exit_by' = IF r.raised = "none" THEN exit_by ELSE "error"
    /\ UNCHANGED <<config, step, observations, actions, rewards, self_info,
                   done, valid_actions, observation, reward, info, walk_idx,
                   env_steps, env_log, env_closed, env_after_close, result>>

LLMChooseAction == LLMChoose(Outcomes)

\* update_action, were it to store at the index after the current step.
UpdateActionAtNextIndex ==
    /\ pc = "update_action"
    /\ actions' = DictSet(actions, step + 1, action)
    /\ chat_history' = Appended(chat_history, kind, Turn("assistant", "Action", step, action))
    /\ outcome' = NoOutcome
    /\ pc' = "env_step"
    /\ UNCHANGED <<config, step, observations, rewards, self_info,
                   done, valid_actions, action, observation, reward, info, walk_idx,
                   exc, exit_by, env_steps, env_log, env_closed, env_after_close, result>>

\* update_action (Agent's, and LLMAgent's override)
UpdateAction ==
    /\ pc = "update_action"
    /\ actions' = DictSet(actions, step, action)
    /\ chat_history' = Appended(chat_history, kind, Turn("assistant", "Action", step, action))
    /\ outcome' = NoOutcome
    /\ pc' = "env_step"
    /\ UNCHANGED <<config, step, observations, rewards, self_info,
                   done, valid_actions, action, observation, reward, info, walk_idx,
                   exc, exit_by, env_steps, env_log, env_closed, env_after_close, result>>

\* observation, reward, done, info = self.env.step(action)
EnvStep ==
    /\ pc = "env_step"
    /\ env_steps < MaxEnvSteps
    /\ env_steps' = env_steps + 1
    /\ observation' = EnvObservation(env_steps + 1)
    /\ info' = EnvInfo(env_steps + 1)
    /\ reward' \in Rewards
    /\ done' \in BOOLEAN
    /\ env_log' = Append(env_log, [action |-> action, reward |-> reward', done |-> done'])
    /\ pc' = "inc_step"
    /\ UNCHANGED <<config, step, observations, actions, rewards, self_info, chat_history,
                   valid_actions, action, walk_idx,
                   outcome, exc, exit_by, env_closed, env_after_close, result>>

\* self.env.step(action) raises: the exception leaves run() and run_games.
EnvStepRaises ==
    /\ pc = "env_step"
    /\ pc' = "raised"
    /\ exc' = "EnvError"
    /\ exit_by' = "env_error"
    /\ UNCHANGED <<config, step, observations, actions, rewards, self_info, chat_history,
                   done, valid_actions, action, observation, reward, info, walk_idx,
                   outcome, env_steps, env_log, env_closed, env_after_close, result>>

\* The step counter left where it was.
IncStepOmitted ==
    /\ pc = "inc_step"
    /\ pc' = "update_reward"
    /\ UNCHANGED <<config, step, observations, actions, rewards, self_info, chat_history,
                   done, valid_actions, action, observation, reward, info, walk_idx,
                   outcome, exc, exit_by, env_steps, env_log, env_closed, env_after_close, result>>

\* self.step += 1
IncStep ==
    /\ pc = "inc_step"
    /\ step' = step + 1
    /\ pc' = "update_reward"
    /\ UNCHANGED <<config, observations, actions, rewards, self_info, chat_history,
                   done, valid_actions, action, observation, reward, info, walk_idx,
                   outcome, exc, exit_by, env_steps, env_log, env_closed, env_after_close, result>>

\* update_reward, were it to store at the index of the action.
UpdateRewardAtActionIndex ==
    /\ pc = "update_reward"
    /\ rewards' = DictSet(rewards, step - 1, reward)
    /\ chat_history' = Appended(chat_history, kind, Turn("user", "Reward", step - 1, reward))
    /\ pc' = "update_observation"
    /\ UNCHANGED <<config, step, observations, actions, self_info,
                   done, valid_actions, action, observation, reward, info, walk_idx,
                   outcome, exc, exit_by, env_steps, env_log, env_closed, env_after_close, result>>

\* update_reward (Agent's, and LLMAgent's override)
UpdateReward ==
    /\ pc = "update_reward"
    /\ rewards' = DictSet(rewards, step, reward)
    /\ chat_history' = Appended(chat_history, kind, Turn("user", "Reward", step, reward))
    /\ pc' = "update_observation"
    /\ UNCHANGED <<config, step, observations, actions, self_info,
                   done, valid_actions, action, observation, reward, info, walk_idx,
                   outcome, exc, exit_by, env_steps, env_log, env_closed, env_after_close, result>>

\* update_observation, were LLMAgent to lack its override: no turn is appended.
UpdateObservationBaseOnly ==
    /\ pc = "update_observation"
    /\ observations' = DictSet(observations, step, observation)
    /\ pc' = IF kind = "WalkThroughAgent" THEN "for" ELSE "while"
    /\ UNCHANGED <<config, step, actions, rewards, self_info, chat_history,
                   done, valid_actions, action, observation, reward, info, walk_idx,
                   outcome, exc, exit_by, env_steps, env_log, env_closed, env_after_close, result>>

\* update_observation, were it to store at the index of the action.
UpdateObservationAtActionIndex ==
    /\ pc = "update_observation"
    /\ observations' = DictSet(observations, step - 1, observation)
    /\ chat_history' = Appended(chat_history, kind,
                                Turn("user", "Observation", step - 1, observation))
    /\ pc' = IF kind = "WalkThroughAgent" THEN "for" ELSE "while"
    /\ UNCHANGED <<config, step, actions, rewards, self_info,
                   done, valid_actions, action, observation, reward, info, walk_idx,
                   outcome, exc, exit_by, env_steps, env_log, env_closed, env_after_close, result>>

\* update_observation (Agent's, and LLMAgent's override); the loop goes round
UpdateObservation ==
    /\ pc = "update_observation"
    /\ observations' = DictSet(observations, step, observation)
    /\ chat_history' = Appended(chat_history, kind,
                                Turn("user", "Observation", step, observation))
    /\ pc' = IF kind = "WalkThroughAgent" THEN "for" ELSE "while"
    /\ UNCHANGED <<config, step, actions, rewards, self_info,
                   done, valid_actions, action, observation, reward, info, walk_idx,
                   outcome, exc, exit_by, env_steps, env_log, env_closed, env_after_close, result>>

\* self.info = info: info is a local of run() that only env.step binds
SetInfo ==
    /\ pc = "set_info"
    /\ self_info' = IF info = Unbound THEN self_info ELSE info
    /\ exc' = IF info = Unbound THEN "UnboundLocalError" ELSE exc
    /\ pc' = IF info = Unbound THEN "raised" ELSE "close_env"
    /\ UNCHANGED <<config, step, observations, actions, rewards, chat_history,
                   done, valid_actions, action, observation, reward, info, walk_idx,
                   outcome, exit_by, env_steps, env_log, env_closed, env_after_close, result>>

\* self.close_env(); run() returns
CloseEnv ==
    /\ pc = "close_env"
    /\ env_closed' = TRUE
    /\ pc' = "returned"
    /\ UNCHANGED <<config, step, observations, actions, rewards, self_info, chat_history,
                   done, valid_actions, action, observation, reward, info, walk_idx,
                   outcome, exc, exit_by, env_steps, env_log, env_after_close, result>>

-----------------------------------------------------------------------------
(* WalkThroughAgent.run *)

\* done = False; the iterable self.env.get_walkthrough() is evaluated once
GetWalkthrough ==
    /\ pc = "get_walkthrough"
    /\ walk_idx' = 0
    /\ pc' = "for"
    /\ UNCHANGED <<config, step, observations, actions, rewards, self_info, chat_history,
                   done, valid_actions, action, observation, reward, info,
                   outcome, exc, exit_by, env_steps, env_log, env_closed, env_after_close, result>>

\* The for loop, were it to stop once the environment signalled done.
ForNextUntilDone ==
    /\ pc = "for"
    /\ IF walk_idx < Len(walkthrough) /\ ~done
       THEN /\ action' = walkthrough[walk_idx + 1]
            /\ walk_idx' = walk_idx + 1
            /\ pc' = "update_action"
            /\ exit_by' = exit_by
       ELSE /\ pc' = "set_info"
            /\ exit_by' = "script"
            /\ UNCHANGED <<action, walk_idx>>
    /\ UNCHANGED <<config, step, observations, actions, rewards, self_info, chat_history,
                   done, valid_actions, observation, reward, info,
                   outcome, exc, env_steps, env_log, env_closed, env_after_close, result>>

\* for action in ...: the next element, or the end of the loop
ForNext ==
    /\ pc = "for"
    /\ IF walk_idx < Len(walkthrough)
       THEN /\ action' = walkthrough[walk_idx + 1]
            /\ walk_idx' = walk_idx + 1
            /\ pc' = "update_action"
            /\ exit_by' = exit_by
       ELSE /\ pc' = "set_info"
            /\ exit_by' = "script"
            /\ UNCHANGED <<action, walk_idx>>
    /\ UNCHANGED <<config, step, observations, actions, rewards, self_info, chat_history,
                   done, valid_actions, observation, reward, info,
                   outcome, exc, env_steps, env_log, env_closed, env_after_close, result>>

-----------------------------------------------------------------------------
(* run_games, after agent.run() *)

\* The result record; env.get_max_score() is evaluated for it.
BuildResult ==
    /\ pc = "returned"
    /\ result' = [agent |-> kind,
                  max_steps |-> max_steps,
                  steps |-> step,
                  num_observations |-> DictLen(observations),
                  num_actions |-> DictLen(actions),
                  num_rewards |-> DictLen(rewards),
                  total_reward |-> SumValues(rewards),
                  info |-> self_info]
    /\ env_after_close' = IF env_closed THEN Append(env_after_close, "get_max_score")
                          ELSE env_after_close
    /\ pc' = "recorded"
    /\ UNCHANGED <<config, step, observations, actions, rewards, self_info, chat_history,
                   done, valid_actions, action, observation, reward, info, walk_idx,
                   outcome, exc, exit_by, env_steps, env_log, env_closed>>

\* The report: env.get_max_score() and env.get_walkthrough() are evaluated for it.
Report ==
    /\ pc = "recorded"
    /\ env_after_close' = IF env_closed
                          THEN env_after_close \o <<"get_max_score", "get_walkthrough">>
                          ELSE env_after_close
    /\ pc' = "reported"
    /\ UNCHANGED <<config, step, observations, actions, rewards, self_info, chat_history,
                   done, valid_actions, action, observation, reward, info, walk_idx,
                   outcome, exc, exit_by, env_steps, env_log, env_closed, result>>

-----------------------------------------------------------------------------

Next ==
    \/ WhileTest
    \/ GetValidActions
    \/ RandomChooseAction
    \/ LLMChooseAction
    \/ UpdateAction
    \/ EnvStep
    \/ EnvStepRaises
    \/ IncStep
    \/ UpdateReward
    \/ UpdateObservation
    \/ SetInfo
    \/ CloseEnv
    \/ GetWalkthrough
    \/ ForNext
    \/ BuildResult
    \/ Report

Spec == Init /\ [][Next]_vars

-----------------------------------------------------------------------------
(* choose_action on its own: one call, on the first step of an episode, over a *)
(* wider set of legal-action lists and of responses                            *)

ShortG == <<"g">>
ShortN == <<"n">>
ShortGN == <<"g", " ", "n">>

MatchAlphabet == {"g", "n", "N", " "}

ShortActions == {ShortG, ShortN, ShortGN}

MatchLists ==
    {<<a>> : a \in ShortActions}
    \cup {<<p[1], p[2]>> : p \in {q \in ShortActions \X ShortActions : q[1] # q[2]}}
    \cup {<<ActGoNorth, ActNorth>>, <<ActNorth, ActGoNorth>>, <<ActOpenDoor, ActWait>>}

MatchResponses ==
    SeqsUpTo(MatchAlphabet, MaxRespLen)
    \cup {RespGoNorth, RespWait, RespUpperNorth, RespNorthern}

MatchOutcomes ==
    {Failed(e) : e \in RequestFailures} \cup {Responded(t) : t \in MatchResponses}

InitMatch ==
    /\ kind = "LLMAgent"
    /\ max_steps = None
    /\ fallback_to_random \in BOOLEAN
    /\ max_chat_history_size = MaxWindow
    /\ walkthrough = <<>>
    /\ step = 0
    /\ observations = DictSet(<<>>, 0, EnvObservation(0))
    /\ actions = <<>>
    /\ rewards = <<>>
    /\ self_info = EmptyInfo
    /\ chat_history = <<system_message, Turn("user", "Observation", 0, EnvObservation(0))>>
    /\ pc = "choose_action"
    /\ done = FALSE
    /\ valid_actions \in MatchLists
    /\ action = <<>>
    /\ observation = EnvObservation(0)
    /\ reward = 0
    /\ info = Unbound
    /\ walk_idx = 0
    /\ outcome = NoOutcome
    /\ exc = "none"
    /\ exit_by = "none"
    /\ env_steps = 0
    /\ env_log = <<>>
    /\ env_closed = FALSE
    /\ env_after_close = <<>>
    /\ result = NoResult

MatchChooseAction == LLMChoose(MatchOutcomes)

NextMatch == MatchChooseAction

SpecMatch == InitMatch /\ [][NextMatch]_vars

-----------------------------------------------------------------------------
(* Properties *)

\* run() has returned to run_games.
Returned == pc \in {"returned", "recorded", "reported"}

\* run() has ended, by returning or by an exception.
Ended == Returned \/ pc = "raised"

\* The generic driver Agent.run is the one running.
GenericDriver == kind \in {"RandomAgent", "LLMAgent"}

\* The legal-action set of the current step.
Legal == {valid_actions[i] : i \in DOMAIN valid_actions}

\* The text a occurs in s as a whole word, whatever the case: the occurrence is
\* neither preceded nor followed by a word character.
WholeWordIn(a, s) ==
    \E p \in 1..Len(s) :
        /\ p + Len(a) - 1 <= Len(s)
        /\ \A i \in 1..Len(a) : Lower(s[p + i - 1]) = Lower(a[i])
        /\ p = 1 \/ ~IsWordChar(s[p - 1])
        /\ p + Len(a) > Len(s) \/ ~IsWordChar(s[p + Len(a)])

\* The indices of the legal actions that occur in the response of outcome o.
Matching(o) == {i \in DOMAIN valid_actions : WholeWordIn(valid_actions[i], o.content)}

\* C1: whenever run() returns normally, the number of recorded rewards equals the
\* number of recorded actions equals the step counter, the number of recorded
\* observations is one more, and the result record reports the same counts.
C1_CountsOnReturn ==
    Returned =>
        /\ DictLen(rewards) = DictLen(actions)
        /\ DictLen(actions) = step
        /\ DictLen(observations) = step + 1
        /\ pc # "returned" =>
            /\ result.num_rewards = result.steps
            /\ result.num_actions = result.steps
            /\ result.num_observations = result.steps + 1

C1_Witness == pc = "reported" /\ step >= 2 /\ result.steps = step

\* C2: for the random and model-driven agents, with an integer step maximum M
\* (anything but None) the step counter never exceeds M.
C2_StepWithinMaximum ==
    (GenericDriver /\ max_steps # None) => step <= max_steps[1]

\* C3: every exit path of run() closes the environment: by done, by the step
\* maximum, by the end of the script, by an empty legal-action set, and by an
\* error of the model-driven policy with fallback disabled.
C3_ClosedOnEveryExit ==
    (/\ Ended
     /\ \/ exit_by \in {"done", "max_steps", "script", "empty"}
        \/ exit_by = "error" /\ ~fallback_to_random)
    => env_closed

\* C4: an empty legal-action set at the start of a step, the first step included,
\* ends the episode there: no exception leaves run(), no env.step follows, and the
\* stored terminal info is the info the environment returned last.
C4_EmptySetEndsEpisodeCleanly ==
    exit_by = "empty" =>
        /\ pc # "raised"
        /\ exc = "none"
        /\ env_steps = DictLen(actions)
        /\ Returned => self_info = EnvInfo(env_steps)

\* C5: with fallback enabled, every failure of the completion request (transport
\* error, timeout, non-2xx status, missing or malformed JSON fields) ends inside
\* choose_action as a pick from the legal-action set, with no exception.
C5_FallbackResolvesEveryFailure ==
    (kind = "LLMAgent" /\ fallback_to_random /\ outcome.exc \in RequestFailures) =>
        /\ pc = "update_action"
        /\ exc = "none"
        /\ action \in Legal

\* C6: with fallback disabled, a failed request or a response that matches no
\* legal action makes choose_action raise out of run(); the step counter,
\* observations, actions and rewards are what they were before the call, and
\* nothing happens after it (no env.step in particular).
C6_FailureStopsWithoutMutation ==
    [][/\ (/\ pc = "choose_action"
           /\ kind = "LLMAgent"
           /\ ~fallback_to_random
           /\ \/ outcome'.exc \in RequestFailures
              \/ outcome'.exc = "none" /\ Matching(outcome') = {})
          => /\ pc' = "raised"
             /\ exc' # "none"
             /\ UNCHANGED <<step, observations, actions, rewards, env_steps>>
       /\ pc = "raised" =>
             UNCHANGED <<step, observations, actions, rewards, env_steps, pc>>]_vars

C6_Witness ==
    /\ pc = "raised"
    /\ ~fallback_to_random
    /\ exc = "ValueError"
    /\ step >= 1

\* C7: for the random and model-driven agents, the action run() records and
\* applies at a step is a member of the legal-action set get_valid_actions()
\* returned at the start of that step.
C7_RecordedActionIsLegal ==
    GenericDriver =>
        /\ pc \in {"update_action", "env_step", "inc_step"} => action \in Legal
        /\ pc \in {"env_step", "inc_step"} =>
            /\ step \in DOMAIN actions
            /\ actions[step] = action
            /\ actions[step] \in Legal

C7_Witness ==
    /\ kind = "LLMAgent"
    /\ pc = "inc_step"
    /\ step = 1
    /\ actions[0] = ActGoNorth
    /\ actions[1] = ActNorth

\* C8: on a successful response in which at least one legal action occurs as a
\* whole word, case ignored, choose_action returns the earliest such action in
\* the order the legal actions were supplied (["go north", "north"] and
\* "I will go north now" give "go north").
C8_EarliestMatchWins ==
    (kind = "LLMAgent" /\ outcome.exc = "none" /\ Matching(outcome) # {}) =>
        /\ pc = "update_action"
        /\ \E i \in Matching(outcome) :
            /\ action = valid_actions[i]
            /\ \A j \in Matching(outcome) : i <= j
        /\ (valid_actions = <<ActGoNorth, ActNorth>> /\ outcome.content = RespGoNorth)
            => action = ActGoNorth
        /\ (valid_actions = <<ActOpenDoor, ActWait>> /\ outcome.content = RespWait)
            => action = ActWait

C8_Witness ==
    /\ valid_actions = <<ActGoNorth, ActNorth>>
    /\ outcome = Responded(RespGoNorth)
    /\ Matching(outcome) = {1, 2}
    /\ action = ActGoNorth

\* C9: with fallback enabled, a response that is received but matches no legal
\* action still makes choose_action return a member of the legal-action set,
\* without an exception.
C9_NoMatchFallbackIsLegal ==
    (/\ kind = "LLMAgent"
     /\ fallback_to_random
     /\ outcome.exc = "none"
     /\ Matching(outcome) = {})
    => /\ pc = "update_action"
       /\ exc = "none"
       /\ action \in Legal

C9_Witness ==
    /\ kind = "LLMAgent"
    /\ fallback_to_random
    /\ outcome = Responded(RespNorthern)
    /\ Matching(outcome) = {}
    /\ pc = "update_action"
    /\ action = ActNorth

\* C10: for every window size >= 0, right after the trim of a choose_action call
\* the chat history holds at most 3*window + 1 turns, and at every point the
\* system turn is there exactly once, as the first turn.
C10_ContextBounded ==
    kind = "LLMAgent" =>
        /\ outcome # NoOutcome => Len(chat_history) <= 3 * max_chat_history_size + 1
        /\ chat_history[1] = system_message
        /\ \A i \in 2..Len(chat_history) : chat_history[i].role # "system"


\* The driver is between two steps, or past the last one: no step is half recorded.
StepBoundary ==
    /\ pc \notin {"env_step", "inc_step", "update_reward", "update_observation"}
    /\ exit_by # "env_error"

\* t is what is left of h when its oldest elements are dropped.
IsSuffix(t, h) ==
    /\ Len(t) <= Len(h)
    /\ t = SubSeq(h, Len(h) - Len(t) + 1, Len(h))

UpdatePositions == {"update_action", "update_reward", "update_observation"}

\* C11 (as stated): no choose_action call changes the stored chat history.
C11_PolicyCallLeavesContext ==
    [][(pc = "choose_action" /\ kind = "LLMAgent") => chat_history' = chat_history]_vars

\* C11 (amended): a choose_action call changes the stored chat history only by
\* its trim: afterwards it is the system turn followed by the most recent of the
\* turns it held before, with no turn added and no request turn kept; turns are
\* added only by update_action, update_reward and update_observation, one at a
\* time and at the end.
C11_PolicyCallOnlyTrims ==
    [][/\ (pc = "choose_action" /\ kind = "LLMAgent") =>
            /\ chat_history'[1] = system_message
            /\ IsSuffix(Tail(chat_history'), Tail(chat_history))
       /\ (pc \in UpdatePositions /\ kind = "LLMAgent") =>
            /\ Len(chat_history') = Len(chat_history) + 1
            /\ SubSeq(chat_history', 1, Len(chat_history)) = chat_history
       /\ chat_history' # chat_history =>
            pc \in UpdatePositions \cup {"choose_action"}]_vars

C11_Witness ==
    /\ kind = "LLMAgent"
    /\ max_chat_history_size = 1
    /\ outcome # NoOutcome
    /\ step = 1
    /\ Len(chat_history) = 4
    /\ chat_history[2].content[1] = "Action"

\* C12 (as stated): at every step boundary rewards is populated for exactly the
\* indices 0..step-1, the index set of actions, and the reward obtained by the
\* action recorded at index n is stored at index n.
C12_RewardsIndexedLikeActions ==
    StepBoundary =>
        /\ DOMAIN rewards = 0..(step - 1)
        /\ DOMAIN rewards = DOMAIN actions
        /\ \A n \in DOMAIN rewards :
            n + 1 \in DOMAIN env_log /\ rewards[n] = env_log[n + 1].reward

\* C12 (amended): at every step boundary actions is populated for exactly the
\* indices 0..step-1 and rewards for exactly 1..step, and the reward obtained by
\* the action recorded at index n is stored at index n+1.
C12_RewardsIndexedOneAhead ==
    StepBoundary =>
        /\ DOMAIN actions = 0..(step - 1)
        /\ DOMAIN rewards = 1..step
        /\ Len(env_log) = step
        /\ \A n \in DOMAIN actions :
            /\ env_log[n + 1].action = actions[n]
            /\ rewards[n + 1] = env_log[n + 1].reward

C12_Witness ==
    /\ pc = "while"
    /\ step = 2
    /\ rewards[1] = 1
    /\ rewards[2] = 0

RECURSIVE ReturnedRewards(_)
ReturnedRewards(n) == IF n = 0 THEN 0 ELSE env_log[n].reward + ReturnedRewards(n - 1)

\* C14: the total_reward of the result record of a completed episode is the sum
\* of the rewards all env.step calls of the episode returned: each is recorded
\* once, none is overwritten or dropped.
C14_TotalRewardIsSumOfReturned ==
    pc \in {"recorded", "reported"} =>
        /\ result.total_reward = ReturnedRewards(Len(env_log))
        /\ result.num_rewards = Len(env_log)
        /\ \A n \in 1..Len(env_log) :
            n \in DOMAIN rewards /\ rewards[n] = env_log[n].reward

C14_Witness ==
    /\ pc = "recorded"
    /\ Len(env_log) = 3
    /\ env_log[1].reward = 1
    /\ env_log[2].reward = 0
    /\ env_log[3].reward = 1
    /\ result.total_reward = 2

\* The number of turns appended since the system turn, and the k-th of them in
\* chronological order, read off the episode state: the initial observation,
\* then per step the action, the reward and the new observation.
TurnsRecorded == DictLen(actions) + DictLen(rewards) + DictLen(observations)

TurnIsRecorded(k) ==
    IF k = 1 THEN 0 \in DOMAIN observations
    ELSE LET j == (k - 2) \div 3
             r == (k - 2) % 3
         IN CASE r = 0 -> j \in DOMAIN actions
              [] r = 1 -> j + 1 \in DOMAIN rewards
              [] OTHER -> j + 1 \in DOMAIN observations

ChronologicalTurn(k) ==
    IF k = 1 THEN Turn("user", "Observation", 0, observations[0])
    ELSE LET j == (k - 2) \div 3
             r == (k - 2) % 3
         IN CASE r = 0 -> Turn("assistant", "Action", j, actions[j])
              [] r = 1 -> Turn("user", "Reward", j + 1, rewards[j + 1])
              [] OTHER -> Turn("user", "Observation", j + 1, observations[j + 1])

\* The turns after the system turn are the last ones of the chronological order.
ContextIsRecentTurns ==
    LET n == Len(chat_history) - 1
    IN /\ n >= 0
       /\ n <= TurnsRecorded
       /\ \A i \in 1..n :
            /\ TurnIsRecorded(TurnsRecorded - n + i)
            /\ chat_history[i + 1] = ChronologicalTurn(TurnsRecorded - n + i)

\* C15: in a model-driven episode the turns follow the system turn in strict
\* chronological order: the initial observation (user), then for each step in
\* order an assistant turn with the action, a user turn with the reward and a
\* user turn with the new observation, all three of a step before any of the next.
C15_TurnsInChronologicalOrder ==
    kind = "LLMAgent" =>
        /\ ContextIsRecentTurns
        /\ max_chat_history_size = 0 => Len(chat_history) = TurnsRecorded + 1

C15_Witness ==
    /\ kind = "LLMAgent"
    /\ max_chat_history_size = 0
    /\ pc = "while"
    /\ step = 2
    /\ Len(chat_history) = 8
    /\ chat_history[6].role = "assistant"

\* C16 (as stated): in every reachable state of a running episode, the states
\* between the update operations of one step and the state env.step leaves when
\* it raises included, there are as many recorded actions as rewards and one
\* observation more.
C16_CountsInEveryState ==
    /\ DictLen(actions) = DictLen(rewards)
    /\ DictLen(observations) = DictLen(actions) + 1

\* C16 (amended): at every step boundary there are as many recorded actions as
\* rewards and one observation more; from update_action until update_reward,
\* and in the state env.step leaves when it raises, there is one action more
\* than rewards and as many observations as actions; between update_reward and
\* update_observation the three counts are equal.
C16_CountsByPosition ==
    /\ StepBoundary =>
        /\ DictLen(actions) = DictLen(rewards)
        /\ DictLen(observations) = DictLen(actions) + 1
    /\ (pc \in {"env_step", "inc_step", "update_reward"} \/ exit_by = "env_error") =>
        /\ DictLen(actions) = DictLen(rewards) + 1
        /\ DictLen(observations) = DictLen(actions)
    /\ pc = "update_observation" =>
        /\ DictLen(actions) = DictLen(rewards)
        /\ DictLen(observations) = DictLen(actions)

C16_Witness ==
    /\ pc = "raised"
    /\ exit_by = "env_error"
    /\ DictLen(actions) = 2
    /\ DictLen(rewards) = 1
    /\ DictLen(observations) = 2

\* C17: for every script, the empty one included, the fixed-script run() returns
\* normally after the last element, with the terminal info stored and the
\* environment closed.
C17_ScriptRunReturns ==
    (kind = "WalkThroughAgent" /\ exit_by = "script") =>
        /\ pc # "raised"
        /\ exc = "none"
        /\ Returned => (env_closed /\ self_info = EnvInfo(env_steps))


\* C18: in the generic driver, once env.step has returned done = True there is
\* no further get_valid_actions, choose_action or env.step in the episode: the
\* step that produced done is the last one, and its reward and observation are
\* recorded before run() leaves the loop.
C18_DoneEndsEpisode ==
    GenericDriver =>
        /\ done => pc \notin {"get_valid_actions", "choose_action", "update_action", "env_step"}
        /\ \A n \in 1..(Len(env_log) - 1) : ~env_log[n].done
        /\ done <=> (env_log # <<>> /\ env_log[Len(env_log)].done)
        /\ exit_by = "done" =>
            /\ step = Len(env_log)
            /\ step \in DOMAIN rewards
            /\ rewards[step] = env_log[step].reward
            /\ step \in DOMAIN observations
            /\ observations[step] = EnvObservation(env_steps)

C18_Witness ==
    /\ kind = "RandomAgent"
    /\ max_steps = None
    /\ exit_by = "done"
    /\ Returned
    /\ step = 2
    /\ env_log[2].done

\* C19: eviction is first-in first-out and aligned to steps: after every trim
\* the chat history is the system turn followed by the most recent turns, in
\* their order, of the chronological log of the other turns, and whenever a
\* turn has been evicted what is kept besides the system turn is exactly the
\* last `window` whole triples (action, reward, observation), the first of
\* them an assistant turn, no triple split.
C19_EvictionKeepsLastTriples ==
    (kind = "LLMAgent" /\ outcome # NoOutcome) =>
        /\ ContextIsRecentTurns
        /\ Len(chat_history) - 1 < TurnsRecorded =>
            /\ Len(chat_history) - 1 = 3 * max_chat_history_size
            /\ chat_history[2].role = "assistant"
            /\ \A t \in 1..max_chat_history_size :
                LET n == step - max_chat_history_size + t
                IN /\ n >= 1
                   /\ chat_history[3 * t - 1] = Turn("assistant", "Action", n - 1, actions[n - 1])
                   /\ chat_history[3 * t] = Turn("user", "Reward", n, rewards[n])
                   /\ chat_history[3 * t + 1] = Turn("user", "Observation", n, observations[n])

C19_Witness ==
    /\ kind = "LLMAgent"
    /\ max_chat_history_size = 1
    /\ outcome # NoOutcome
    /\ step = 2
    /\ Len(chat_history) = 4
    /\ TurnsRecorded = 7
    /\ chat_history[2] = Turn("assistant", "Action", 1, actions[1])

\* C20: at every step boundary the step counter is the number of env.step calls
\* made so far, actions is populated for exactly the indices 0..step-1 and
\* actions[n] is the action passed to the (n+1)-th env.step call; the step
\* counter only ever grows, by exactly one per env.step call.
C20_StepCountsEnvCalls ==
    /\ [](StepBoundary =>
            /\ step = env_steps
            /\ Len(env_log) = env_steps
            /\ DOMAIN actions = 0..(step - 1)
            /\ \A n \in DOMAIN actions : actions[n] = env_log[n + 1].action)
    /\ [](env_steps = step \/ (env_steps = step + 1 /\ pc = "inc_step"))
    /\ [][\/ step' = step
          \/ step' = step + 1 /\ pc = "inc_step" /\ env_steps = step + 1]_vars

C20_Witness ==
    /\ pc = "while"
    /\ step = 3
    /\ env_steps = 3
    /\ actions[0] = ActGoNorth
    /\ actions[1] = ActNorth
    /\ env_log[2].action = ActNorth

\* Positions of run() at which the driver is about to invoke an operation of the
\* environment (get_valid_actions, step, get_walkthrough).
DriverEnvCall == pc \in {"get_valid_actions", "env_step", "get_walkthrough"}

\* The driver half of C21: once the environment is closed, run() has returned
\* and invokes nothing more on it.
DriverQuietAfterClose == env_closed => (Returned /\ ~DriverEnvCall)

\* C21: once the environment of an episode has been closed at episode end, no
\* further operation (step, get_valid_actions, get_walkthrough, get_max_score) is
\* invoked on it, neither by the driver nor by the harness that builds the
\* result record and the report.
C21_NoOperationAfterClose ==
    /\ DriverQuietAfterClose
    /\ env_after_close = <<>>

=============================================================================
